---- MODULE Spec2Model ----
(***************************************************************************)
(* Resilient API access layer of rpctl: the error taxonomy (errors.py),    *)
(* the backoff calculator and retry engine (api/retry.py) and the two API  *)
(* clients that route every request through the retry engine              *)
(* (api/graphql_client.py, api/rest_client.py); the batch helper           *)
(* parallel_map (services/parallel.py) and the polling helper poll_until   *)
(* (services/poll.py).                                                     *)
(*                                                                         *)
(* Durations of the retry engine are integers counted in half seconds, so  *)
(* that the jitter bound delay * 0.5 of a whole-second base is again a     *)
(* whole number; poll_until counts whole ticks of the monotonic clock.     *)
(***************************************************************************)
EXTENDS Integers, Sequences, FiniteSets, TLC

VARIABLES
    client,          \* who calls retry_on_transient: "direct", "graphql", "rest"
    max_attempts,    \* retry_on_transient(max_attempts=...)
    base_delay,      \* retry_on_transient(base_delay=...)
    max_delay,       \* retry_on_transient(max_delay=...)
    pc,              \* "loop", "sleep", "returned", "raised", "idle"
    attempt,         \* loop variable of `for attempt in range(1, max_attempts + 1)`
    last_exception,  \* local last_exception (None or an exception)
    delay,           \* local delay, computed before time.sleep(delay)
    result,          \* value returned to the caller (None until then)
    raised,          \* exception raised to the caller (None until then)
    calls,           \* number of invocations of func so far
    sleeps,          \* durations passed to time.sleep, in order
    hist,            \* how every invocation of func ended, in order:
                     \* "return" or the class of the exception
    last,            \* outcome of the last invocation of func
    lastRaw,         \* what the transport or SDK did in the last invocation
    lastEv,          \* the outcome of the transport or SDK call underneath
                     \* the last invocation, in full
    applied,         \* how many times the remote has carried out the
                     \* request of this RestClient call
    script,          \* None, or the outcomes the transport or operation
                     \* gives to the successive invocations (a scripted
                     \* double, as the side_effect lists of the unit tests)
    txErr,           \* taxonomy run: the error under evaluation
    txVerdicts,      \* taxonomy run: successive values of txErr.is_transient
    dArgs,           \* backoff run: arguments of _calculate_delay
    dOut,            \* backoff run: values returned by _calculate_delay
    items,           \* parallel_map(items=...), a list
    max_workers,     \* parallel_map(max_workers=...)
    stop_on_error,   \* parallel_map(stop_on_error=...)
    ppc,             \* where the calling thread of parallel_map is: "start",
                     \* "submit", "collect", "cancel", "exit", "returned",
                     \* "raised", "idle"
    cursor,          \* index of the submit loop and of the cancel loop
    futures,         \* future_to_item: the future of items[i] at index i,
                     \* with its state and the outcome of func(items[i])
    invocations,     \* how many times func was invoked on items[i]
    collected,       \* indexes of the futures as_completed has yielded
    succeeded,       \* BatchResult.succeeded
    failed,          \* BatchResult.failed
    stopped,         \* the StopOnError raised (None until then)
    batch,           \* large batch: len(items), the items being alike
    requested,       \* large batch: parallel_map(max_workers=...)
    bpc,             \* large batch: where the calling thread is
    submitted,       \* large batch: items submitted to the pool so far
    started,         \* large batch: items a worker has taken so far
    finished,        \* large batch: items whose func has ended so far
    gathered,        \* large batch: futures as_completed has yielded so far
    timeout,         \* poll_until(timeout=...), in clock ticks
    interval,        \* poll_until(interval=...), in clock ticks
    label,           \* poll_until(label=...)
    now,             \* time.monotonic(), counted from the call of poll_until
    deadline,        \* local deadline
    pollPc,          \* "check", "sleep", "returned", "raised", "idle"
    pollStatus,      \* local status: the one the latest check returned
    last_status,     \* local last_status: the one printed last
    checkStarts,     \* the time at which every check_fn call began
    seen,            \* the status every check_fn call returned
    pollSleeps,      \* durations passed to time.sleep, in order
    pollError,       \* the PollTimeoutError raised (None until then)
    command,         \* the bulk command run: "stop-all" or "delete-all"
    parallel,        \* its --parallel flag
    cliPc,           \* where the command is: "list", "confirm", "loop",
                     \* "batch", "exited", "idle"
    pods,            \* the ids of the pods svc.list_pods returned
    podIndex,        \* loop variable of the sequential `for pod in pods`
    podFailures,     \* indexes of the pods whose operation raised
    errLines,        \* the lines printed on stderr, in order
    outLines,        \* the lines printed on stdout, in order
    exitCode         \* exit code of the process (None while it runs)

retryVars == <<client, max_attempts, base_delay, max_delay, pc, attempt,
               last_exception, delay, result, raised, calls, sleeps, hist,
               last, lastRaw, lastEv, applied, script>>
txVars == <<txErr, txVerdicts>>
dVars == <<dArgs, dOut>>
parVars == <<items, max_workers, stop_on_error, ppc, cursor, futures, invocations,
             collected, succeeded, failed, stopped>>
batchVars == <<batch, requested, bpc, submitted, started, finished, gathered>>
pollVars == <<timeout, interval, label, now, deadline, pollPc, pollStatus,
              last_status, checkStarts, seen, pollSleeps, pollError>>
cliVars == <<command, parallel, cliPc, pods, podIndex, podFailures, errLines,
             outLines, exitCode>>
vars == <<retryVars, txVars, dVars, parVars, batchVars, pollVars, cliVars>>

----------------------------------------------------------------------------
(* Bounds of the model *)

MaxAttempts == 3
MaxDelayAttempt == 4
MaxEvaluations == 2
MaxItems == 3
MaxBatch == 22
MaxChecks == 3
MaxCheckTime == 2
MaxDrift == 1

(* Program constants (config/constants.py), durations in half seconds *)

DEFAULT_MAX_RETRIES == 3
DEFAULT_RETRY_BASE_DELAY == 2
DEFAULT_RETRY_MAX_DELAY == 60

(* Python's None and an optional value, as a sequence of length 0 or 1 *)

None == <<>>
Some(x) == <<x>>
IsNone(o) == Len(o) = 0
Get(o) == o[1]

Min(a, b) == IF a <= b THEN a ELSE b

RECURSIVE Pow2(_)
Pow2(n) == IF n <= 0 THEN 1 ELSE 2 * Pow2(n - 1)

----------------------------------------------------------------------------
(* errors.py *)

\* an exception object: its class, ApiError's status_code, the retry_after
\* attribute (absent = None), the message, a number embedded in the message
\* and the class of the chained cause (raise ... from e)
Exc(kind, status, retry_after, msg, n, cause) ==
    [kind |-> kind, status |-> status, retry_after |-> retry_after,
     msg |-> msg, n |-> n, cause |-> cause]

NoCause == "-"

AuthenticationError(msg) ==
    Exc("AuthenticationError", None, None, msg, None, NoCause)
ResourceNotFoundError(msg) ==
    Exc("ResourceNotFoundError", None, None, msg, None, NoCause)
ApiError(msg, status) ==
    Exc("ApiError", status, None, msg, None, NoCause)
Builtin(kind, msg) ==
    Exc(kind, None, None, msg, None, NoCause)

\* direct base classes; "Exception" is the root of everything modelled
BaseOf(kind) ==
    CASE kind = "ResourceNotFoundError" -> "ApiError"
      [] kind = "ApiError" -> "RpctlError"
      [] kind = "AuthenticationError" -> "RpctlError"
      [] kind = "ConfigError" -> "RpctlError"
      [] kind = "PresetError" -> "RpctlError"
      [] kind = "ValidationError" -> "RpctlError"
      [] kind = "ConnectionError" -> "OSError"
      [] kind = "TimeoutError" -> "OSError"
      [] kind = "JSONDecodeError" -> "ValueError"
      [] kind = "httpx.ConnectError" -> "httpx.TransportError"
      [] kind = "httpx.TimeoutException" -> "httpx.TransportError"
      [] kind = "httpx.ReadTimeout" -> "httpx.TimeoutException"
      [] kind = "httpx.ReadError" -> "httpx.TransportError"
      [] OTHER -> "Exception"

RECURSIVE IsInstance(_, _)
IsInstance(kind, cls) ==
    \/ kind = cls
    \/ kind # "Exception" /\ IsInstance(BaseOf(kind), cls)

_TRANSIENT_STATUS_CODES == {408, 429, 500, 502, 503, 504}

\* variant: an error without a status code counts as worth retrying
ApiError_is_transient_NoneRetried(e) ==
    IF IsNone(e.status) THEN TRUE
    ELSE Get(e.status) \in _TRANSIENT_STATUS_CODES

\* the is_transient property, dispatched on the class of the error
ApiError_is_transient(e) ==
    IF IsNone(e.status) THEN FALSE
    ELSE Get(e.status) \in _TRANSIENT_STATUS_CODES

\* variant: ResourceNotFoundError without its own is_transient
is_transient_NoOverride(e) ==
    CASE e.kind = "AuthenticationError" -> FALSE
      [] OTHER -> ApiError_is_transient(e)

is_transient(e) ==
    CASE e.kind = "AuthenticationError" -> FALSE
      [] e.kind = "ResourceNotFoundError" -> FALSE
      [] OTHER -> ApiError_is_transient(e)

----------------------------------------------------------------------------
(* api/retry.py *)

\* variant: the exponent counts attempts from zero
RawDelay_ZeroIndexed(a, base) == base * Pow2(a)

\* `delay = base * (2 ** (attempt - 1))`
RawDelay(a, base) == base * Pow2(a - 1)

\* the values random.uniform(0, delay * 0.5) can return
JitterRange(a, base) == 0 .. (RawDelay(a, base) \div 2)

\* variant: the server hint is returned without the max_delay cap
_calculate_delay_Uncapped(a, base, maxd, retry_after, jitter) ==
    IF ~IsNone(retry_after) /\ Get(retry_after) > 0
    THEN Get(retry_after)
    ELSE Min(RawDelay(a, base) + jitter, maxd)

\* _calculate_delay, given the value jitter that random.uniform returns
\* when it is called
_calculate_delay(a, base, maxd, retry_after, jitter) ==
    IF ~IsNone(retry_after) /\ Get(retry_after) > 0
    THEN Min(Get(retry_after), maxd)
    ELSE Min(RawDelay(a, base) + jitter, maxd)

\* variant: AuthenticationError listed with the network-level exceptions
ExceptClause_AuthAsTransport(e) ==
    CASE IsInstance(e.kind, "ResourceNotFoundError") -> "reraise"
      [] IsInstance(e.kind, "ApiError") -> "api"
      [] IsInstance(e.kind, "AuthenticationError")
           \/ IsInstance(e.kind, "ConnectionError")
           \/ IsInstance(e.kind, "TimeoutError")
           \/ IsInstance(e.kind, "OSError") -> "transport"
      [] OTHER -> "uncaught"

\* which except clause of retry_on_transient catches an exception raised by
\* func; the clauses are tried in source order
ExceptClause(e) ==
    CASE IsInstance(e.kind, "AuthenticationError")
           \/ IsInstance(e.kind, "ResourceNotFoundError") -> "reraise"
      [] IsInstance(e.kind, "ApiError") -> "api"
      [] IsInstance(e.kind, "ConnectionError")
           \/ IsInstance(e.kind, "TimeoutError")
           \/ IsInstance(e.kind, "OSError") -> "transport"
      [] OTHER -> "uncaught"

\* variant: the last attempt is compared with > instead of ==
GivesUp_OffByOne(e, a, maxa) == ~is_transient(e) \/ a > maxa

\* `if not e.is_transient or attempt == max_attempts: raise`
GivesUp(e, a, maxa) == ~is_transient(e) \/ a = maxa

TransportGivesUp_Never(a, maxa) == FALSE

\* `if attempt == max_attempts: raise ApiError(...) from e`
TransportGivesUp(a, maxa) == a = maxa

\* variant: the network-level exception is re-raised as it is
ConnectionFailed_Raw(e, maxa) == e

\* ApiError(f"Connection failed after {max_attempts} attempts: {e}") from e
ConnectionFailed(e, maxa) ==
    Exc("ApiError", None, None,
        <<"Connection failed after N attempts:">> \o e.msg,
        Some(maxa), e.kind)

\* the result of one invocation of func: a value or an exception
NoExc == Exc("-", None, None, <<>>, None, NoCause)
Return(v) == [type |-> "return", value |-> v, exc |-> NoExc]
Raise(e) == [type |-> "raise", value |-> "-", exc |-> e]
OutcomeKind(o) == IF o.type = "return" THEN "return" ELSE o.exc.kind

\* leaving retry_on_transient
ReturnToCaller(v) ==
    /\ pc' = "returned"
    /\ result' = Some(v)
    /\ UNCHANGED raised

RaiseToCaller(e) ==
    /\ pc' = "raised"
    /\ raised' = Some(e)
    /\ UNCHANGED result

\* computing the delay and going on to time.sleep(delay)
Backoff(retry_after) ==
    /\ \E jitter \in JitterRange(attempt, base_delay) :
          delay' = Some(_calculate_delay(attempt, base_delay, max_delay,
                                         retry_after, jitter))
    /\ pc' = "sleep"
    /\ UNCHANGED <<result, raised>>

\* variant: the value of func is not returned from inside the loop
OnReturn_KeepsLooping(o) ==
    /\ Backoff(None)
    /\ UNCHANGED last_exception

\* `return func(*args, **kwargs)`
OnReturn(o) ==
    /\ ReturnToCaller(o.value)
    /\ UNCHANGED <<last_exception, delay>>

\* `except (AuthenticationError, ResourceNotFoundError): raise`
OnTerminal(e) ==
    /\ RaiseToCaller(e)
    /\ UNCHANGED <<last_exception, delay>>

\* `except ApiError as e:`
OnApiError(e) ==
    /\ last_exception' = Some(e)
    /\ IF GivesUp(e, attempt, max_attempts)
       THEN RaiseToCaller(e) /\ UNCHANGED delay
       ELSE Backoff(e.retry_after)

\* `except (ConnectionError, TimeoutError, OSError) as e:`
OnTransport(e) ==
    /\ last_exception' = Some(e)
    /\ IF TransportGivesUp(attempt, max_attempts)
       THEN RaiseToCaller(ConnectionFailed(e, max_attempts)) /\ UNCHANGED delay
       ELSE Backoff(None)

\* an exception no clause catches leaves the function as it is
OnUncaught(e) ==
    /\ RaiseToCaller(e)
    /\ UNCHANGED <<last_exception, delay>>

\* the body of the try statement for the outcome o of func
Handle(o) ==
    IF o.type = "return" THEN OnReturn(o)
    ELSE CASE ExceptClause(o.exc) = "reraise" -> OnTerminal(o.exc)
           [] ExceptClause(o.exc) = "api" -> OnApiError(o.exc)
           [] ExceptClause(o.exc) = "transport" -> OnTransport(o.exc)
           [] OTHER -> OnUncaught(o.exc)

----------------------------------------------------------------------------
(* api/graphql_client.py *)

\* what self._client.post does: an HTTP response or an httpx exception.
\* A body is the text of the response: whether response.json() decodes
\* it, its "errors" entry and its "data" entry (None = key absent)
Body(decodable, errors, data) ==
    [decodable |-> decodable, errors |-> errors, data |-> data]
EmptyBody == Body(TRUE, None, None)

Response(status, hdr, body) ==
    [t |-> "response", status |-> status, retry_after |-> hdr,
     body |-> body, exc |-> "-"]
PostRaises(kind) ==
    [t |-> "exc", status |-> 0, retry_after |-> None,
     body |-> EmptyBody, exc |-> kind]

\* float(s) on the header texts of the model, in half seconds;
\* None stands for ValueError
FloatOf(s) ==
    CASE s = "3" -> Some(6)
      [] s = "0" -> Some(0)
      [] s = "-1" -> Some(-2)
      [] s = "120" -> Some(240)
      [] OTHER -> None

RetryAfterOf_Ignored(hdr) == None

\* the retry_after attribute of the 429 error: set only when the header is
\* a non-empty text that float() accepts
RetryAfterOf(hdr) ==
    IF IsNone(hdr) \/ Get(hdr) = "" THEN None ELSE FloatOf(Get(hdr))

\* "; ".join(messages)
RECURSIVE Join(_)
Join(msgs) ==
    IF Len(msgs) = 0 THEN <<>>
    ELSE IF Len(msgs) = 1 THEN msgs
    ELSE <<Head(msgs), "; ">> \o Join(Tail(msgs))

_execute_once(ev) ==
    IF ev.t = "exc" THEN
        CASE IsInstance(ev.exc, "httpx.ConnectError") ->
               Raise(Exc("ApiError", Some(503), None,
                         <<"Cannot connect to RunPod API:">>, None, ev.exc))
          [] IsInstance(ev.exc, "httpx.TimeoutException") ->
               Raise(Exc("ApiError", Some(408), None,
                         <<"Request timed out:">>, None, ev.exc))
          [] OTHER -> Raise(Builtin(ev.exc, <<>>))
    ELSE IF ev.status = 401 THEN
        Raise(AuthenticationError(<<"Invalid API key.">>))
    ELSE IF ev.status = 429 THEN
        Raise(Exc("ApiError", Some(429), RetryAfterOf(ev.retry_after),
                  <<"Rate limited by RunPod API">>, None, NoCause))
    ELSE IF ev.status # 200 THEN
        Raise(Exc("ApiError", Some(ev.status), None,
                  <<"GraphQL request failed with status N">>,
                  Some(ev.status), NoCause))
    ELSE IF ~ev.body.decodable THEN
        Raise(Builtin("JSONDecodeError", <<>>))
    ELSE IF ~IsNone(ev.body.errors) THEN
        Raise(ApiError(<<"GraphQL error: ">> \o Join(Get(ev.body.errors)),
                       None))
    ELSE IF IsNone(ev.body.data) THEN Return("{}")
    ELSE Return(Get(ev.body.data))

----------------------------------------------------------------------------
(* api/rest_client.py *)

\* The message of an SDK exception is a sequence of words.  Each word is
\* described by what the tests of _call_once see in it: the substring
\* "401", the substring "unauthorized" of its lower case, the substring
\* "404", the substring "not found" of its lower case, and the code that
\* _STATUS_CODE_RE matches in it (None if it matches nothing).
Word(w) ==
    CASE w = "401" ->
           [s401 |-> TRUE, unauth |-> FALSE, s404 |-> FALSE,
            notfound |-> FALSE, code |-> Some(401)]
      [] w = "Unauthorized" ->
           [s401 |-> FALSE, unauth |-> TRUE, s404 |-> FALSE,
            notfound |-> FALSE, code |-> None]
      [] w = "404" ->
           [s401 |-> FALSE, unauth |-> FALSE, s404 |-> TRUE,
            notfound |-> FALSE, code |-> Some(404)]
      [] w = "Not Found" ->
           [s401 |-> FALSE, unauth |-> FALSE, s404 |-> FALSE,
            notfound |-> TRUE, code |-> None]
      [] w = "503" ->
           [s401 |-> FALSE, unauth |-> FALSE, s404 |-> FALSE,
            notfound |-> FALSE, code |-> Some(503)]
      [] w = "400" ->
           [s401 |-> FALSE, unauth |-> FALSE, s404 |-> FALSE,
            notfound |-> FALSE, code |-> Some(400)]
      [] w = "id4041x" ->
           [s401 |-> FALSE, unauth |-> FALSE, s404 |-> TRUE,
            notfound |-> FALSE, code |-> None]
      [] OTHER ->
           [s401 |-> FALSE, unauth |-> FALSE, s404 |-> FALSE,
            notfound |-> FALSE, code |-> None]

\* _STATUS_CODE_RE.search(msg): the first match, from the left
RECURSIVE _extract_status_code(_)
_extract_status_code(msg) ==
    IF Len(msg) = 0 THEN None
    ELSE IF ~IsNone(Word(Head(msg)).code) THEN Word(Head(msg)).code
    ELSE _extract_status_code(Tail(msg))

\* what the SDK function does: returns a value or raises an exception
SdkReturns(v) == [t |-> "return", value |-> v, exc |-> "-", msg |-> <<>>]
SdkRaises(kind, msg) == [t |-> "exc", value |-> "-", exc |-> kind, msg |-> msg]

_call_once_CodeFirst(ev) ==
    IF ev.t = "return" THEN Return(ev.value)
    ELSE Raise(Exc("ApiError", _extract_status_code(ev.msg), None,
                   <<"RunPod API error: ">> \o ev.msg, None, ev.exc))

_call_once(ev) ==
    IF ev.t = "return" THEN Return(ev.value)
    ELSE IF \E i \in 1..Len(ev.msg) :
                Word(ev.msg[i]).s401 \/ Word(ev.msg[i]).unauth
    THEN Raise(Exc("AuthenticationError", None, None,
                   <<"Invalid API key.">>, None, ev.exc))
    ELSE IF \E i \in 1..Len(ev.msg) :
                Word(ev.msg[i]).s404 \/ Word(ev.msg[i]).notfound
    THEN Raise(Exc("ResourceNotFoundError", None, None, ev.msg, None, ev.exc))
    ELSE Raise(Exc("ApiError", _extract_status_code(ev.msg), None,
                   <<"RunPod API error: ">> \o ev.msg, None, ev.exc))

----------------------------------------------------------------------------
(* Inputs of the model *)

Clients == {"direct", "graphql", "rest"}
BaseDelays == {DEFAULT_RETRY_BASE_DELAY, 4}
MaxDelays == {6, DEFAULT_RETRY_MAX_DELAY}
Hints == {None, Some(0), Some(-2), Some(6), Some(10), Some(240)}
StatusCodes == {200, 201, 400, 401, 403, 404, 408, 422, 429,
                500, 501, 502, 503, 504}
OptionalStatus == {None} \cup {Some(c) : c \in StatusCodes}

\* outcomes of a func handed to retry_on_transient directly
DirectEvents ==
    {Return(v) : v \in {"ok", "recovered"}}
    \cup {Raise(AuthenticationError(<<"Invalid API key.">>)),
          Raise(ResourceNotFoundError(<<"Pod not found.">>)),
          Raise(Exc("ResourceNotFoundError", Some(503), Some(6),
                    <<"gone">>, None, NoCause))}
    \cup {Raise(ApiError(<<"server error">>, st)) : st \in OptionalStatus}
    \cup {Raise(Exc("ApiError", Some(c), h, <<"rate limited">>, None, NoCause)) :
            c \in {400, 429}, h \in Hints \ {None}}
    \cup {Raise(Builtin(k, <<"refused">>)) :
            k \in {"ConnectionError", "TimeoutError", "OSError",
                   "ConfigError", "ValidationError", "PresetError",
                   "ValueError"}}

\* outcomes of self._client.post
Headers == {"", "3", "0", "-1", "120", "soon"}
Bodies == {Body(TRUE, None, Some("payload")),
           Body(TRUE, None, None),
           Body(TRUE, Some(<<"m1">>), None),
           Body(TRUE, Some(<<"m1", "m2">>), Some("payload")),
           Body(TRUE, Some(<<>>), None),
           Body(FALSE, None, None)}
GraphQLEvents ==
    {Response(st, None, EmptyBody) : st \in StatusCodes \ {200}}
    \cup {Response(429, Some(h), EmptyBody) : h \in Headers}
    \cup {Response(200, None, b) : b \in Bodies}
    \cup {Response(200, Some("3"), Body(TRUE, None, Some("payload")))}
    \cup {PostRaises(k) :
            k \in {"httpx.ConnectError", "httpx.ReadTimeout", "httpx.ReadError"}}

\* outcomes of the SDK function
Words == {"401", "Unauthorized", "404", "Not Found", "503", "400",
          "id4041x", "refused"}
Messages == {<<w>> : w \in Words} \cup {<<v, w>> : v \in Words, w \in Words}
SdkExceptions == {"QueryError", "ConnectionError", "TimeoutError"}
RestEvents ==
    {SdkReturns("pod")}
    \cup {SdkRaises(k, m) : k \in SdkExceptions, m \in Messages}

Events(c) ==
    CASE c = "graphql" -> GraphQLEvents
      [] c = "rest" -> RestEvents
      [] OTHER -> DirectEvents

\* the func of each caller: GraphQLClient.execute hands _execute_once to
\* retry_on_transient, RestClient._call hands _call_once
Func(c, ev) ==
    CASE c = "graphql" -> _execute_once(ev)
      [] c = "rest" -> _call_once(ev)
      [] OTHER -> ev

\* what happened underneath func
RawOf(c, ev) ==
    CASE c = "graphql" -> IF ev.t = "exc" THEN ev.exc ELSE "response"
      [] c = "rest" -> IF ev.t = "exc" THEN ev.exc ELSE "return"
      [] OTHER -> OutcomeKind(ev)

----------------------------------------------------------------------------
(* retry_on_transient, one call *)

RetryInit ==
    /\ client \in Clients
    /\ max_attempts \in
         IF client = "direct" THEN (-1) .. MaxAttempts
         ELSE {DEFAULT_MAX_RETRIES}
    /\ base_delay \in
         IF client = "direct" THEN BaseDelays ELSE {DEFAULT_RETRY_BASE_DELAY}
    /\ max_delay \in
         IF client = "direct" THEN MaxDelays ELSE {DEFAULT_RETRY_MAX_DELAY}
    /\ pc = "loop"
    /\ attempt = 1
    /\ last_exception = None
    /\ delay = None
    /\ result = None
    /\ raised = None
    /\ calls = 0
    /\ sleeps = <<>>
    /\ hist = <<>>
    /\ last = Return("-")
    /\ lastRaw = "-"
    /\ lastEv = Return("-")
    /\ applied = 0
    /\ script = None

RetryIdle ==
    /\ client = "direct"
    /\ max_attempts = DEFAULT_MAX_RETRIES
    /\ base_delay = DEFAULT_RETRY_BASE_DELAY
    /\ max_delay = DEFAULT_RETRY_MAX_DELAY
    /\ pc = "idle"
    /\ attempt = 1
    /\ last_exception = None
    /\ delay = None
    /\ result = None
    /\ raised = None
    /\ calls = 0
    /\ sleeps = <<>>
    /\ hist = <<>>
    /\ last = Return("-")
    /\ lastRaw = "-"
    /\ lastEv = Return("-")
    /\ applied = 0
    /\ script = None

TxIdle == txErr = NoExc /\ txVerdicts = <<>>

DIdle ==
    /\ dArgs = [attempt |-> 1, base |-> DEFAULT_RETRY_BASE_DELAY,
                max_delay |-> DEFAULT_RETRY_MAX_DELAY, retry_after |-> None,
                jitter |-> 0]
    /\ dOut = None

ParIdle ==
    /\ items = <<>>
    /\ max_workers = 5
    /\ stop_on_error = FALSE
    /\ ppc = "idle"
    /\ cursor = 1
    /\ futures = <<>>
    /\ invocations = <<>>
    /\ collected = <<>>
    /\ succeeded = <<>>
    /\ failed = <<>>
    /\ stopped = None

BatchIdle ==
    /\ batch = 0
    /\ requested = 5
    /\ bpc = "idle"
    /\ submitted = 0
    /\ started = 0
    /\ finished = 0
    /\ gathered = 0

PollIdle ==
    /\ timeout = 0
    /\ interval = 0
    /\ label = "resource"
    /\ now = 0
    /\ deadline = 0
    /\ pollPc = "idle"
    /\ pollStatus = ""
    /\ last_status = ""
    /\ checkStarts = <<>>
    /\ seen = <<>>
    /\ pollSleeps = <<>>
    /\ pollError = None

CliIdle ==
    /\ command = "stop-all"
    /\ parallel = FALSE
    /\ cliPc = "idle"
    /\ pods = <<>>
    /\ podIndex = 1
    /\ podFailures = {}
    /\ errLines = <<>>
    /\ outLines = <<>>
    /\ exitCode = None

\* what the transport, SDK or operation can do in the next invocation:
\* anything, unless it is scripted
Offered ==
    IF IsNone(script) THEN Events(client)
    ELSE {Get(script)[calls + 1]}

\* what an invocation does to the remote underneath a RestClient call: a
\* request that is answered was carried out once; one that fails may have
\* been carried out before the failure, or not
Effects(c, ev) ==
    IF c # "rest" THEN {0}
    ELSE IF ev.t = "return" THEN {1}
    ELSE {0, 1}

\* one iteration of the for loop: func is invoked and its outcome handled
Attempt ==
    /\ pc = "loop"
    /\ attempt <= max_attempts
    /\ \E ev \in Offered :
          /\ calls' = calls + 1
          /\ \E n \in Effects(client, ev) : applied' = applied + n
          /\ hist' = Append(hist, OutcomeKind(Func(client, ev)))
          /\ last' = Func(client, ev)
          /\ lastRaw' = RawOf(client, ev)
          /\ lastEv' = ev
          /\ Handle(Func(client, ev))
    /\ UNCHANGED <<client, max_attempts, base_delay, max_delay, attempt,
                   sleeps, script, txVars, dVars, parVars, batchVars, pollVars,
                   cliVars>>

\* time.sleep(delay), then the next iteration
Sleep ==
    /\ pc = "sleep"
    /\ sleeps' = Append(sleeps, Get(delay))
    /\ attempt' = attempt + 1
    /\ pc' = "loop"
    /\ UNCHANGED <<client, max_attempts, base_delay, max_delay,
                   last_exception, delay, result, raised, calls, hist,
                   last, lastRaw, lastEv, applied, script, txVars, dVars, parVars, batchVars, pollVars,
                   cliVars>>

Exhausted_ReturnsNone ==
    /\ pc = "loop"
    /\ attempt > max_attempts
    /\ ReturnToCaller("None")
    /\ UNCHANGED <<client, max_attempts, base_delay, max_delay, attempt,
                   last_exception, delay, calls, sleeps, hist, last,
                   lastRaw, lastEv, applied, script, txVars, dVars, parVars,
                   batchVars, pollVars, cliVars>>

\* the range is used up: `raise last_exception`; raising None is a TypeError
Exhausted ==
    /\ pc = "loop"
    /\ attempt > max_attempts
    /\ IF IsNone(last_exception)
       THEN RaiseToCaller(Builtin("TypeError",
                <<"exceptions must derive from BaseException">>))
       ELSE RaiseToCaller(Get(last_exception))
    /\ UNCHANGED <<client, max_attempts, base_delay, max_delay, attempt,
                   last_exception, delay, calls, sleeps, hist, last,
                   lastRaw, lastEv, applied, script, txVars, dVars, parVars, batchVars, pollVars,
                   cliVars>>

Init == RetryInit /\ TxIdle /\ DIdle /\ ParIdle /\ BatchIdle
        /\ PollIdle /\ CliIdle
Next == Attempt \/ Sleep \/ Exhausted
Spec == Init /\ [][Next]_vars

----------------------------------------------------------------------------
(* retry_on_transient against a scripted transport or operation *)

\* a script answers every invocation the loop can make
ScriptLen == IF MaxAttempts > DEFAULT_MAX_RETRIES THEN MaxAttempts
             ELSE DEFAULT_MAX_RETRIES

Throttled == Response(429, Some("3"), EmptyBody)
Served == Response(200, None, Body(TRUE, None, Some("payload")))

ScriptEvents(c) ==
    IF c = "graphql"
    THEN {Throttled, Served,
          Response(429, None, EmptyBody),
          Response(503, None, EmptyBody),
          Response(401, None, EmptyBody),
          PostRaises("httpx.ConnectError")}
    ELSE {Return("ok"),
          Raise(ApiError(<<>>, Some(503))),
          Raise(ApiError(<<>>, Some(400))),
          Raise(Builtin("ConnectionError", <<>>))}

Scripts(c) == [1 .. ScriptLen -> ScriptEvents(c)]

ScriptedInit ==
    /\ client \in {"graphql", "direct"}
    /\ max_attempts \in
         IF client = "direct" THEN 0 .. MaxAttempts
         ELSE {DEFAULT_MAX_RETRIES}
    /\ base_delay = DEFAULT_RETRY_BASE_DELAY
    /\ max_delay = DEFAULT_RETRY_MAX_DELAY
    /\ pc = "loop"
    /\ attempt = 1
    /\ last_exception = None
    /\ delay = None
    /\ result = None
    /\ raised = None
    /\ calls = 0
    /\ sleeps = <<>>
    /\ hist = <<>>
    /\ last = Return("-")
    /\ lastRaw = "-"
    /\ lastEv = Return("-")
    /\ applied = 0
    /\ script \in {Some(sc) : sc \in Scripts(client)}

EndToEndInit == ScriptedInit /\ TxIdle /\ DIdle /\ ParIdle /\ BatchIdle
                /\ PollIdle /\ CliIdle
EndToEndNext == Attempt \/ Sleep \/ Exhausted
SpecEndToEnd == EndToEndInit /\ [][EndToEndNext]_vars

----------------------------------------------------------------------------
(* ApiError.is_transient, evaluated on one error *)

TaxonomyErrors ==
    {Exc(k, st, None, <<>>, None, NoCause) :
        k \in {"AuthenticationError", "ResourceNotFoundError", "ApiError"},
        st \in OptionalStatus}

TxInit ==
    /\ txErr \in TaxonomyErrors
    /\ txVerdicts = <<>>

Evaluate ==
    /\ Len(txVerdicts) < MaxEvaluations
    /\ txVerdicts' = Append(txVerdicts, is_transient(txErr))
    /\ UNCHANGED <<txErr, retryVars, dVars, parVars, batchVars,
                   pollVars, cliVars>>

TaxonomyInit == TxInit /\ RetryIdle /\ DIdle /\ ParIdle /\ BatchIdle
                /\ PollIdle /\ CliIdle
TaxonomyNext == Evaluate
SpecTaxonomy == TaxonomyInit /\ [][TaxonomyNext]_vars

----------------------------------------------------------------------------
(* _calculate_delay, called once *)

DelayArgs ==
    {x \in [attempt : 1 .. MaxDelayAttempt, base : BaseDelays,
            max_delay : MaxDelays, retry_after : Hints,
            jitter : UNION {JitterRange(MaxDelayAttempt, b) : b \in BaseDelays}] :
        x.jitter \in JitterRange(x.attempt, x.base)}

DInit ==
    /\ dArgs \in DelayArgs
    /\ dOut = None

Calculate ==
    /\ IsNone(dOut)
    /\ dOut' = Some(_calculate_delay(dArgs.attempt, dArgs.base,
                                     dArgs.max_delay, dArgs.retry_after,
                                     dArgs.jitter))
    /\ UNCHANGED <<dArgs, retryVars, txVars, parVars, batchVars,
                   pollVars, cliVars>>

BackoffInit == DInit /\ RetryIdle /\ TxIdle /\ ParIdle /\ BatchIdle
               /\ PollIdle /\ CliIdle
BackoffNext == Calculate
SpecBackoff == BackoffInit /\ [][BackoffNext]_vars

----------------------------------------------------------------------------
(* services/parallel.py: parallel_map, one call.  The calling thread       *)
(* submits every item to a ThreadPoolExecutor, collects the futures as     *)
(* they complete and leaves the `with` block; the worker threads of the    *)
(* pool take the queued items in order and run func on them.               *)

MAX_WORKERS_CAP == 20

Max(a, b) == IF a >= b THEN a ELSE b

\* workers = min(max(1, max_workers), MAX_WORKERS_CAP, len(items))
Workers_Uncapped(mw, n) == Min(Max(1, mw), n)

Workers(mw, n) == Min(Min(Max(1, mw), MAX_WORKERS_CAP), n)

ItemNames == {"a", "b"}
ItemLists == UNION {[1 .. n -> ItemNames] : n \in 0 .. MaxItems}
WorkerRequests == {-1, 0, 1, 2, 100}

\* func: what it returns for an item, and everything it can do with it
Value(it) == IF it = "a" THEN "A" ELSE "B"
FuncOutcomes(it) ==
    {Return(Value(it)),
     Raise(Builtin("ValueError", <<"bad ", it>>)),
     Raise(Builtin("RuntimeError", <<"boom ", it>>))}

\* a future: "pending", "running", "finished" (with the outcome of func) or
\* "cancelled"
Future(state, out) == [state |-> state, out |-> out]
NoOutcome == Return("-")

\* StopOnError(f"Stopped on error processing {item}: {exc}") from exc
StopOnError_Unchained(item, exc) ==
    [kind |-> "StopOnError",
     msg |-> <<"Stopped on error processing ", item, ": ">> \o exc.msg,
     cause |-> NoExc]

StopOnError(item, exc) ==
    [kind |-> "StopOnError",
     msg |-> <<"Stopped on error processing ", item, ": ">> \o exc.msg,
     cause |-> exc]

\* BatchResult.total
total == Len(succeeded) + Len(failed)

Running == {i \in 1 .. Len(futures) : futures[i].state = "running"}
Settled_FinishedOnly(i) == futures[i].state = "finished"

\* a future is done when func has finished or when it was cancelled
Settled(i) == futures[i].state \in {"finished", "cancelled"}

ParInit ==
    /\ items \in ItemLists
    /\ max_workers \in WorkerRequests
    /\ stop_on_error \in BOOLEAN
    /\ ppc = "start"
    /\ cursor = 1
    /\ futures = <<>>
    /\ invocations = [i \in 1 .. Len(items) |-> 0]
    /\ collected = <<>>
    /\ succeeded = <<>>
    /\ failed = <<>>
    /\ stopped = None

\* if not items: return BatchResult()
ReturnEmpty ==
    /\ ppc = "start"
    /\ items = <<>>
    /\ ppc' = "returned"
    /\ UNCHANGED <<items, max_workers, stop_on_error, cursor, futures,
                   invocations, collected, succeeded, failed, stopped>>
    /\ UNCHANGED <<retryVars, txVars, dVars, batchVars, pollVars, cliVars>>

\* with ThreadPoolExecutor(max_workers=workers) as executor
OpenPool ==
    /\ ppc = "start"
    /\ items # <<>>
    /\ ppc' = "submit"
    /\ UNCHANGED <<items, max_workers, stop_on_error, cursor, futures,
                   invocations, collected, succeeded, failed, stopped>>
    /\ UNCHANGED <<retryVars, txVars, dVars, batchVars, pollVars, cliVars>>

\* executor.submit(func, item) for the next item of the list
Submit ==
    /\ ppc = "submit"
    /\ futures' = Append(futures, Future("pending", NoOutcome))
    /\ ppc' = IF Len(futures') = Len(items) THEN "collect" ELSE "submit"
    /\ UNCHANGED <<items, max_workers, stop_on_error, cursor, invocations,
                   collected, succeeded, failed, stopped>>
    /\ UNCHANGED <<retryVars, txVars, dVars, batchVars, pollVars, cliVars>>

\* a worker thread of the pool takes the oldest queued item that was not
\* cancelled and invokes func on it; the pool has `workers` threads
StartItem ==
    /\ Cardinality(Running) < Workers(max_workers, Len(items))
    /\ \E i \in 1 .. Len(futures) :
          /\ futures[i].state = "pending"
          /\ \A j \in 1 .. (i - 1) : futures[j].state # "pending"
          /\ futures' = [futures EXCEPT ![i].state = "running"]
          /\ invocations' = [invocations EXCEPT ![i] = @ + 1]
    /\ UNCHANGED <<items, max_workers, stop_on_error, ppc, cursor, collected,
                   succeeded, failed, stopped>>
    /\ UNCHANGED <<retryVars, txVars, dVars, batchVars, pollVars, cliVars>>

FinishItem_WorkerAppends ==
    /\ \E i \in Running :
          \E o \in FuncOutcomes(items[i]) :
              /\ futures' = [futures EXCEPT ![i] = Future("finished", o)]
              /\ succeeded' = IF o.type = "return"
                              THEN Append(succeeded, o.value)
                              ELSE succeeded
    /\ UNCHANGED <<items, max_workers, stop_on_error, ppc, cursor,
                   invocations, collected, failed, stopped>>
    /\ UNCHANGED <<retryVars, txVars, dVars, batchVars, pollVars, cliVars>>

\* func(item) returns or raises in its worker thread
FinishItem ==
    /\ \E i \in Running :
          \E o \in FuncOutcomes(items[i]) :
              futures' = [futures EXCEPT ![i] = Future("finished", o)]
    /\ UNCHANGED <<items, max_workers, stop_on_error, ppc, cursor,
                   invocations, collected, succeeded, failed, stopped>>
    /\ UNCHANGED <<retryVars, txVars, dVars, batchVars, pollVars, cliVars>>

\* where the calling thread goes after the body of the for loop: to the
\* next future, or out of the `with` block after the last one
AfterCollect_Early(n) == "exit"

AfterCollect(n) == IF n = Len(items) THEN "exit" ELSE "collect"

\* `if stop_on_error:` in the except branch
AfterFailure_AlwaysStops(n) == "cancel"

AfterFailure(n) == IF stop_on_error THEN "cancel" ELSE AfterCollect(n)

\* one iteration of `for future in as_completed(future_to_item)`
Collect ==
    /\ ppc = "collect"
    /\ \E i \in 1 .. Len(futures) :
          /\ Settled(i)
          /\ \A j \in 1 .. Len(collected) : collected[j] # i
          /\ collected' = Append(collected, i)
          /\ IF futures[i].out.type = "return"
             THEN /\ succeeded' = Append(succeeded, futures[i].out.value)
                  /\ ppc' = AfterCollect(Len(collected'))
                  /\ UNCHANGED <<failed, cursor>>
             ELSE /\ failed' = Append(failed, <<items[i], futures[i].out.exc>>)
                  /\ ppc' = AfterFailure(Len(collected'))
                  /\ UNCHANGED <<succeeded, cursor>>
    /\ UNCHANGED <<items, max_workers, stop_on_error, futures, invocations,
                   stopped>>
    /\ UNCHANGED <<retryVars, txVars, dVars, batchVars, pollVars, cliVars>>

CancelNext_LeavesPending ==
    /\ ppc = "cancel"
    /\ cursor' = cursor + 1
    /\ IF cursor = Len(items)
       THEN /\ ppc' = "exit"
            /\ stopped' = Some(StopOnError(failed[Len(failed)][1],
                                           failed[Len(failed)][2]))
       ELSE UNCHANGED <<ppc, stopped>>
    /\ UNCHANGED <<items, max_workers, stop_on_error, futures, invocations,
                   collected, succeeded, failed>>
    /\ UNCHANGED <<retryVars, txVars, dVars, batchVars, pollVars, cliVars>>

\* f.cancel() on the next future of future_to_item, cursor counting from
\* the first one: only a pending future
\* is cancelled; after the last one, StopOnError is raised out of the
\* `with` block
CancelNext ==
    /\ ppc = "cancel"
    /\ futures' = IF futures[cursor].state = "pending"
                  THEN [futures EXCEPT ![cursor].state = "cancelled"]
                  ELSE futures
    /\ cursor' = cursor + 1
    /\ IF cursor = Len(items)
       THEN /\ ppc' = "exit"
            /\ stopped' = Some(StopOnError(failed[Len(failed)][1],
                                           failed[Len(failed)][2]))
       ELSE UNCHANGED <<ppc, stopped>>
    /\ UNCHANGED <<items, max_workers, stop_on_error, invocations, collected,
                   succeeded, failed>>
    /\ UNCHANGED <<retryVars, txVars, dVars, batchVars, pollVars, cliVars>>

Shutdown_NoWait ==
    /\ ppc = "exit"
    /\ ppc' = IF IsNone(stopped) THEN "returned" ELSE "raised"
    /\ UNCHANGED <<items, max_workers, stop_on_error, cursor, futures,
                   invocations, collected, succeeded, failed, stopped>>
    /\ UNCHANGED <<retryVars, txVars, dVars, batchVars, pollVars, cliVars>>

\* leaving the `with` block: executor.shutdown(wait=True) joins the worker
\* threads, which end when nothing is queued or running; then parallel_map
\* returns the result or the StopOnError propagates
Shutdown ==
    /\ ppc = "exit"
    /\ \A i \in 1 .. Len(futures) : Settled(i)
    /\ ppc' = IF IsNone(stopped) THEN "returned" ELSE "raised"
    /\ UNCHANGED <<items, max_workers, stop_on_error, cursor, futures,
                   invocations, collected, succeeded, failed, stopped>>
    /\ UNCHANGED <<retryVars, txVars, dVars, batchVars, pollVars, cliVars>>

ParallelInit == ParInit /\ RetryIdle /\ TxIdle /\ DIdle /\ BatchIdle
                /\ PollIdle /\ CliIdle
ParallelNext ==
    \/ ReturnEmpty
    \/ OpenPool
    \/ Submit
    \/ StartItem
    \/ FinishItem
    \/ Collect
    \/ CancelNext
    \/ Shutdown
SpecParallel == ParallelInit /\ [][ParallelNext]_vars

\* the calling thread and the worker threads are scheduled by the
\* operating system and every invocation of func terminates: no step that
\* can be taken is put off for ever
SpecParallelFair == SpecParallel /\ WF_vars(ParallelNext)

----------------------------------------------------------------------------
(* services/parallel.py: parallel_map with stop_on_error=False on a large  *)
(* batch of like items, which are counted instead of told apart: how many  *)
(* are submitted, taken by a worker, ended, collected.                     *)

BatchSizes == 0 .. MaxBatch
BatchRequests == {-1, 0, 1, 2, MAX_WORKERS_CAP - 1, MAX_WORKERS_CAP,
                  MAX_WORKERS_CAP + 1, 100}

BatchInit ==
    /\ batch \in BatchSizes
    /\ requested \in BatchRequests
    /\ bpc = "start"
    /\ submitted = 0
    /\ started = 0
    /\ finished = 0
    /\ gathered = 0

\* if not items: return BatchResult()
BatchReturnEmpty ==
    /\ bpc = "start"
    /\ batch = 0
    /\ bpc' = "returned"
    /\ UNCHANGED <<batch, requested, submitted, started, finished, gathered>>
    /\ UNCHANGED <<retryVars, txVars, dVars, parVars, pollVars, cliVars>>

\* with ThreadPoolExecutor(max_workers=workers) as executor
BatchOpenPool ==
    /\ bpc = "start"
    /\ batch > 0
    /\ bpc' = "submit"
    /\ UNCHANGED <<batch, requested, submitted, started, finished, gathered>>
    /\ UNCHANGED <<retryVars, txVars, dVars, parVars, pollVars, cliVars>>

\* executor.submit(func, item) for the next item
BatchSubmit ==
    /\ bpc = "submit"
    /\ submitted' = submitted + 1
    /\ bpc' = IF submitted' = batch THEN "collect" ELSE "submit"
    /\ UNCHANGED <<batch, requested, started, finished, gathered>>
    /\ UNCHANGED <<retryVars, txVars, dVars, parVars, pollVars, cliVars>>

\* a free worker thread of the pool takes a queued item and invokes func
BatchStartItem ==
    /\ started < submitted
    /\ started - finished < Workers(requested, batch)
    /\ started' = started + 1
    /\ UNCHANGED <<batch, requested, bpc, submitted, finished, gathered>>
    /\ UNCHANGED <<retryVars, txVars, dVars, parVars, pollVars, cliVars>>

\* func returns or raises in its worker thread
BatchFinishItem ==
    /\ finished < started
    /\ finished' = finished + 1
    /\ UNCHANGED <<batch, requested, bpc, submitted, started, gathered>>
    /\ UNCHANGED <<retryVars, txVars, dVars, parVars, pollVars, cliVars>>

\* one iteration of `for future in as_completed(future_to_item)`: its
\* entry is appended to succeeded or to failed
BatchCollect ==
    /\ bpc = "collect"
    /\ gathered < finished
    /\ gathered' = gathered + 1
    /\ bpc' = IF gathered' = batch THEN "exit" ELSE "collect"
    /\ UNCHANGED <<batch, requested, submitted, started, finished>>
    /\ UNCHANGED <<retryVars, txVars, dVars, parVars, pollVars, cliVars>>

\* leaving the `with` block joins the worker threads; return result
BatchShutdown ==
    /\ bpc = "exit"
    /\ finished = submitted
    /\ bpc' = "returned"
    /\ UNCHANGED <<batch, requested, submitted, started, finished, gathered>>
    /\ UNCHANGED <<retryVars, txVars, dVars, parVars, pollVars, cliVars>>

LargeBatchInit == BatchInit /\ RetryIdle /\ TxIdle /\ DIdle /\ ParIdle
                  /\ PollIdle /\ CliIdle
LargeBatchNext ==
    \/ BatchReturnEmpty
    \/ BatchOpenPool
    \/ BatchSubmit
    \/ BatchStartItem
    \/ BatchFinishItem
    \/ BatchCollect
    \/ BatchShutdown
SpecLargeBatch == LargeBatchInit /\ [][LargeBatchNext]_vars

----------------------------------------------------------------------------
(* services/poll.py: poll_until, one call.  Time is the monotonic clock in *)
(* whole ticks, counted from the call.                                     *)

Timeouts == {-1, 0, 2, 5}
Intervals == {0, 1, 3}
Labels == {"resource", "pod"}
Statuses == {"PENDING", "INITIALIZING"}
\* what a check_fn call returns, (done, status), and how long it takes
CheckResults == [done : BOOLEAN, status : Statuses]
CheckTimes == 0 .. MaxCheckTime
\* the clock between two readings a statement apart, and the time a sleep
\* takes beyond what was asked
Drifts == 0 .. MaxDrift

\* PollTimeoutError(f"Timed out after {timeout}s waiting for {label}.
\*                    Last status: {status}")
PollTimeoutError_FirstStatus(t, lbl, st) ==
    [kind |-> "PollTimeoutError", text |-> "Timed out after", timeout |-> t,
     label |-> lbl, status |-> IF seen = <<>> THEN st ELSE seen[1].status]

PollTimeoutError(t, lbl, st) ==
    [kind |-> "PollTimeoutError", text |-> "Timed out after", timeout |-> t,
     label |-> lbl, status |-> st]

\* the first statement of the body of `while True`
FirstStep_Sleeps == "sleep"

FirstStep == "check"

PollInit ==
    /\ timeout \in Timeouts
    /\ interval \in Intervals
    /\ label \in Labels
    /\ now = 0
    /\ deadline = now + timeout
    /\ pollPc = FirstStep
    /\ pollStatus = ""
    /\ last_status = ""
    /\ checkStarts = <<>>
    /\ seen = <<>>
    /\ pollSleeps = <<>>
    /\ pollError = None

Check_NeverTimesOut ==
    /\ pollPc = "check"
    /\ Len(seen) < MaxChecks
    /\ \E d \in CheckTimes, r \in CheckResults :
          /\ checkStarts' = Append(checkStarts, now)
          /\ now' = now + d
          /\ seen' = Append(seen, r)
          /\ pollStatus' = r.status
          /\ last_status' = IF r.status # last_status THEN r.status
                            ELSE last_status
          /\ pollPc' = IF r.done THEN "returned" ELSE "sleep"
    /\ UNCHANGED <<timeout, interval, label, deadline, pollSleeps, pollError>>
    /\ UNCHANGED <<retryVars, txVars, dVars, parVars, batchVars, cliVars>>

\* done, status = check_fn(), the status line, `if done: return` and the
\* deadline test; the clock is read when check_fn has returned
Check ==
    /\ pollPc = "check"
    /\ Len(seen) < MaxChecks
    /\ \E d \in CheckTimes, r \in CheckResults :
          /\ checkStarts' = Append(checkStarts, now)
          /\ now' = now + d
          /\ seen' = Append(seen, r)
          /\ pollStatus' = r.status
          /\ last_status' = IF r.status # last_status THEN r.status
                            ELSE last_status
          /\ IF r.done
             THEN pollPc' = "returned" /\ UNCHANGED pollError
             ELSE IF now' >= deadline
             THEN /\ pollPc' = "raised"
                  /\ pollError' =
                        Some(PollTimeoutError(timeout, label, r.status))
             ELSE pollPc' = "sleep" /\ UNCHANGED pollError
    /\ UNCHANGED <<timeout, interval, label, deadline, pollSleeps>>
    /\ UNCHANGED <<retryVars, txVars, dVars, parVars, batchVars, cliVars>>

\* min(interval, max(0, remaining)) with remaining = deadline - t, t being
\* what time.monotonic() returns
SleepFor_Nothing(t) == 0

SleepFor(t) == Min(interval, Max(0, deadline - t))

\* remaining = deadline - time.monotonic();
\* time.sleep(min(interval, max(0, remaining)))
Nap ==
    /\ pollPc = "sleep"
    /\ \E e \in Drifts, o \in Drifts :
          /\ pollSleeps' = Append(pollSleeps, SleepFor(now + e))
          /\ now' = now + e + SleepFor(now + e) + o
    /\ pollPc' = "check"
    /\ UNCHANGED <<timeout, interval, label, deadline, pollStatus,
                   last_status, checkStarts, seen, pollError>>
    /\ UNCHANGED <<retryVars, txVars, dVars, parVars, batchVars, cliVars>>

PollingInit ==
    PollInit /\ RetryIdle /\ TxIdle /\ DIdle /\ ParIdle /\ BatchIdle
    /\ CliIdle
PollingNext == Check \/ Nap
SpecPoll == PollingInit /\ [][PollingNext]_vars

\* the same loop on a clock that advances: a call of check_fn and a pass
\* through the sleep statement each take at least one tick of
\* time.monotonic(), every call of check_fn returns, and the thread that
\* runs poll_until is not held up for ever
TickingCheck == Check /\ now' > now
TickingNap == Nap /\ now' > now
TickingNext == TickingCheck \/ TickingNap
SpecPollTicking ==
    PollingInit /\ [][TickingNext]_vars /\ WF_vars(TickingNext)

----------------------------------------------------------------------------
(* cli/pod.py: the bulk commands `pod stop-all` and `pod delete-all`, one  *)
(* run.  With --parallel the command hands the pods to parallel_map        *)
(* (stop_on_error left False) and reports its BatchResult; without it, it  *)
(* goes through the pods in a loop.                                        *)

\* exit_code of the classes of errors.py
ExitCodeOf(kind) ==
    CASE kind = "AuthenticationError" -> 2
      [] kind = "ConfigError" -> 3
      [] kind = "ApiError" -> 4
      [] kind = "ResourceNotFoundError" -> 5
      [] kind = "PresetError" -> 6
      [] kind = "ValidationError" -> 7
      [] OTHER -> 1

BulkCommands == {"stop-all", "delete-all"}
Verb(c) == IF c = "stop-all" THEN "stop" ELSE "delete"

\* a line on stderr or stdout
Line(kind, verb, pod, text) ==
    [kind |-> kind, verb |-> verb, pod |-> pod, text |-> text]

\* what svc.list_pods does
ListOutcomes ==
    {[type |-> "return", pods |-> l, exc |-> NoExc] : l \in ItemLists}
    \cup {[type |-> "raise", pods |-> <<>>, exc |-> e] :
            e \in {AuthenticationError(<<"Invalid API key.">>),
                   ApiError(<<"API down">>, Some(500))}}

\* what svc.stop_pod or svc.delete_pod does with a pod in the loop
PodOutcomes(pod) ==
    {Return("{}"),
     Raise(ApiError(<<"RunPod API error: ", pod>>, Some(500))),
     Raise(ResourceNotFoundError(<<pod, " not found">>))}

\* how the user answers typer.confirm, "flag" standing for --confirm
Answers == {"flag", "yes", "no"}

\* the exit code after the sequential loop has printed its lines: the
\* command returns
AfterLoop(failures) == 0

BulkInit ==
    /\ command \in BulkCommands
    /\ parallel \in BOOLEAN
    /\ cliPc = "list"
    /\ pods = <<>>
    /\ podIndex = 1
    /\ podFailures = {}
    /\ errLines = <<>>
    /\ outLines = <<>>
    /\ exitCode = None

\* svc.list_pods(...): an error ends the command with its exit code, an
\* empty list ends it with "No pods" and exit code 0
ListPods ==
    /\ cliPc = "list"
    /\ \E o \in ListOutcomes :
          IF o.type = "raise"
          THEN /\ errLines' = Append(errLines,
                                 Line("error", "list", None, o.exc.msg))
               /\ exitCode' = Some(ExitCodeOf(o.exc.kind))
               /\ cliPc' = "exited"
               /\ UNCHANGED <<pods, outLines>>
          ELSE IF o.pods = <<>>
          THEN /\ outLines' = Append(outLines,
                                 Line("none", Verb(command), None, <<>>))
               /\ exitCode' = Some(0)
               /\ cliPc' = "exited"
               /\ UNCHANGED <<pods, errLines>>
          ELSE /\ pods' = o.pods
               /\ cliPc' = "confirm"
               /\ UNCHANGED <<errLines, outLines, exitCode>>
    /\ UNCHANGED <<command, parallel, podIndex, podFailures>>
    /\ UNCHANGED <<retryVars, txVars, dVars, parVars, batchVars, pollVars>>

\* `if not confirm: typer.confirm(..., abort=True)`, then the branch on
\* --parallel: parallel_map is called with the pods, or the loop begins
Confirm ==
    /\ cliPc = "confirm"
    /\ \E answer \in Answers :
          IF answer = "no"
          THEN /\ exitCode' = Some(1)
               /\ cliPc' = "exited"
               /\ UNCHANGED parVars
          ELSE IF parallel
          THEN /\ cliPc' = "batch"
               /\ items' = pods
               /\ max_workers' \in WorkerRequests
               /\ stop_on_error' = FALSE
               /\ ppc' = "start"
               /\ invocations' = [i \in 1 .. Len(pods) |-> 0]
               /\ UNCHANGED <<cursor, futures, collected, succeeded, failed,
                              stopped, exitCode>>
          ELSE /\ cliPc' = "loop"
               /\ UNCHANGED <<parVars, exitCode>>
    /\ UNCHANGED <<command, parallel, pods, podIndex, podFailures, errLines,
                   outLines>>
    /\ UNCHANGED <<retryVars, txVars, dVars, batchVars, pollVars>>

\* one iteration of `for pod in pods` with its try/except RpctlError; after
\* the last pod the command returns
LoopNext ==
    /\ cliPc = "loop"
    /\ \E o \in PodOutcomes(pods[podIndex]) :
          IF o.type = "return"
          THEN /\ outLines' = Append(outLines,
                                 Line("done", Verb(command),
                                      Some(pods[podIndex]), <<>>))
               /\ UNCHANGED <<errLines, podFailures>>
          ELSE /\ errLines' = Append(errLines,
                                 Line("failed", Verb(command),
                                      Some(pods[podIndex]), o.exc.msg))
               /\ podFailures' = podFailures \cup {podIndex}
               /\ UNCHANGED outLines
    /\ podIndex' = podIndex + 1
    /\ IF podIndex = Len(pods)
       THEN cliPc' = "exited" /\ exitCode' = Some(AfterLoop(podFailures'))
       ELSE UNCHANGED <<cliPc, exitCode>>
    /\ UNCHANGED <<command, parallel, pods>>
    /\ UNCHANGED <<retryVars, txVars, dVars, parVars, batchVars, pollVars>>

\* the lines "Failed to ... pod: {exc}", one for every entry of
\* result.failed
RECURSIVE FailedLines(_, _)
FailedLines(verb, entries) ==
    IF entries = <<>> THEN <<>>
    ELSE <<Line("failed", verb, None, Head(entries)[2].msg)>>
         \o FailedLines(verb, Tail(entries))

\* parallel_map has returned its result: the count of successes, a line
\* for every failure, and exit code 1 if there is any
Report ==
    /\ cliPc = "batch"
    /\ ppc = "returned"
    /\ outLines' = Append(outLines,
                          Line("count", Verb(command), None,
                               <<Len(succeeded)>>))
    /\ errLines' = errLines \o FailedLines(Verb(command), failed)
    /\ exitCode' = IF failed # <<>> THEN Some(1) ELSE Some(0)
    /\ cliPc' = "exited"
    /\ podFailures' =
          {i \in 1 .. Len(futures) : futures[i].out.type = "raise"}
    /\ UNCHANGED <<command, parallel, pods, podIndex>>
    /\ UNCHANGED <<retryVars, txVars, dVars, parVars, batchVars, pollVars>>

BulkStartInit ==
    BulkInit /\ RetryIdle /\ TxIdle /\ DIdle /\ ParIdle /\ BatchIdle
    /\ PollIdle
BulkNext ==
    \/ ListPods
    \/ Confirm
    \/ LoopNext
    \/ OpenPool
    \/ Submit
    \/ StartItem
    \/ FinishItem
    \/ Collect
    \/ Shutdown
    \/ Report
SpecBulk == BulkStartInit /\ [][BulkNext]_vars

----------------------------------------------------------------------------
(* Properties *)

TerminalKinds == {"AuthenticationError", "ResourceNotFoundError"}
TransportKinds == {"ConnectionError", "TimeoutError", "OSError"}
TaxonomyKinds == {"AuthenticationError", "ResourceNotFoundError", "ApiError"}
TransientSet == {408, 429, 500, 502, 503, 504}

Finished == pc \in {"returned", "raised"}
Invoked == hist # <<>>
LastRaised(kinds) ==
    Invoked /\ last.type = "raise" /\ last.exc.kind \in kinds
TransientApiError(e) ==
    e.kind = "ApiError" /\ ~IsNone(e.status) /\ Get(e.status) \in TransientSet
AllOutcomesIn(kinds) == \A i \in 1 .. Len(hist) : hist[i] \in kinds

C2_ExhaustionSurfacesLastError ==
    (Finished /\ Invoked /\ AllOutcomesIn({"ApiError"})
       /\ TransientApiError(last.exc)) =>
        /\ pc = "raised"
        /\ calls = max_attempts
        /\ Len(sleeps) = max_attempts - 1
        /\ raised = Some(last.exc)
        /\ result = None

C2_Witness ==
    /\ pc = "raised"
    /\ max_attempts = DEFAULT_MAX_RETRIES
    /\ calls = DEFAULT_MAX_RETRIES
    /\ Len(sleeps) = DEFAULT_MAX_RETRIES - 1
    /\ AllOutcomesIn({"ApiError"})
    /\ last.exc.status = Some(503)
    /\ Get(raised).status = Some(503)

\* C3: once an attempt has succeeded, retry_on_transient has returned the
\* value of that attempt, unmodified; it is the first and only success, no
\* invocation and no sleep comes after it, whatever failed before.
C3_SuccessReturnsAtOnce ==
    (Invoked /\ last.type = "return") =>
        /\ pc = "returned"
        /\ result = Some(last.value)
        /\ raised = None
        /\ Len(sleeps) = calls - 1
        /\ \A i \in 1 .. Len(hist) : hist[i] = "return" <=> i = Len(hist)

C3_Witness ==
    /\ pc = "returned"
    /\ calls = 3
    /\ Len(sleeps) = 2
    /\ hist = <<"ApiError", "ConnectionError", "return">>
    /\ result = Some("recovered")

\* C4: when an attempt raises an ApiError whose status code is None or is
\* outside {408,429,500,502,503,504}, or raises ConfigError, ValidationError
\* or PresetError, that error is raised to the caller unchanged at once, with
\* no sleep after it; on the first attempt that is one invocation, no sleep.
NonTransientFailure(e) ==
    \/ e.kind = "ApiError"
         /\ (IsNone(e.status) \/ Get(e.status) \notin TransientSet)
    \/ e.kind \in {"ConfigError", "ValidationError", "PresetError"}

C4_NonTransientNeverRetried ==
    (Invoked /\ last.type = "raise" /\ NonTransientFailure(last.exc)) =>
        /\ pc = "raised"
        /\ raised = Some(last.exc)
        /\ Len(sleeps) = calls - 1
        /\ Len(hist) = 1 => (calls = 1 /\ sleeps = <<>>)

C4_Witness ==
    /\ pc = "raised"
    /\ max_attempts = DEFAULT_MAX_RETRIES
    /\ calls = 1
    /\ sleeps = <<>>
    /\ last.type = "raise"
    /\ last.exc.kind = "ApiError"
    /\ last.exc.status = None
    /\ raised = Some(last.exc)

\* C5: is_transient is true exactly for an ApiError (not one of its
\* ResourceNotFoundError subclass) whose status code is in
\* {408,429,500,502,503,504}; it is false for every other status, for None,
\* and for AuthenticationError and ResourceNotFoundError whatever status they
\* carry; every evaluation on the same error gives the same answer.
C5_TransienceExact ==
    \A i \in 1 .. Len(txVerdicts) :
        /\ txVerdicts[i] = TransientApiError(txErr)
        /\ txVerdicts[i] = txVerdicts[1]

C5_Witness ==
    /\ txErr.kind = "ResourceNotFoundError"
    /\ txErr.status = Some(503)
    /\ txVerdicts = <<FALSE, FALSE>>

\* C6: after an attempt that raised ConnectionError, TimeoutError or OSError,
\* retry_on_transient goes on (sleep, then the next invocation) as long as
\* that attempt was not the last; if it was attempt max_attempts, it raises
\* an ApiError without status code, non-transient, whose message names
\* max_attempts and whose cause is the exception, never the exception itself.
C6_TransportFailure ==
    LastRaised(TransportKinds) =>
        IF calls < max_attempts
        THEN /\ pc \in {"sleep", "loop"}
             /\ result = None
             /\ raised = None
             /\ pc = "sleep" => (~IsNone(delay) /\ Len(sleeps) = calls - 1)
             /\ pc = "loop" => (attempt = calls + 1 /\ Len(sleeps) = calls)
        ELSE /\ calls = max_attempts
             /\ pc = "raised"
             /\ Get(raised).kind = "ApiError"
             /\ Get(raised).status = None
             /\ ~is_transient(Get(raised))
             /\ Get(raised).n = Some(max_attempts)
             /\ Get(raised).cause = last.exc.kind
             /\ Len(sleeps) = max_attempts - 1

C6_Witness ==
    /\ pc = "raised"
    /\ max_attempts = DEFAULT_MAX_RETRIES
    /\ hist = <<"ConnectionError", "ConnectionError", "ConnectionError">>
    /\ Get(raised).kind = "ApiError"
    /\ Get(raised).n = Some(DEFAULT_MAX_RETRIES)

\* C7: through GraphQLClient.execute and RestClient._call, a connect,
\* timeout or I/O failure of the underlying call on an attempt before the
\* last is followed by a sleep and a new invocation, never raised to the
\* caller.
RawTransportFailures ==
    {"httpx.ConnectError", "httpx.ReadTimeout", "httpx.ReadError",
     "ConnectionError", "TimeoutError"}

C7_ClientsRetryTransport ==
    (client \in {"graphql", "rest"} /\ Invoked
       /\ lastRaw \in RawTransportFailures /\ calls < max_attempts) =>
        pc \in {"sleep", "loop"}

\* C8: every exception that GraphQLClient.execute or RestClient._call raises
\* to its caller is an AuthenticationError, a ResourceNotFoundError or an
\* ApiError.
C8_EveryFailureClassified ==
    (client \in {"graphql", "rest"} /\ pc = "raised") =>
        Get(raised).kind \in TaxonomyKinds

\* C9: before every sleep the delay is exactly min(retry_after, max_delay)
\* when the failed attempt's ApiError carries a retry_after > 0, and a value
\* of the exponential formula otherwise; the duration slept is that delay.
HintOf(o) == IF o.exc.kind = "ApiError" THEN o.exc.retry_after ELSE None
HintUsable(h) == ~IsNone(h) /\ Get(h) > 0

C9_RetryAfterHonored ==
    /\ pc = "sleep" =>
          IF HintUsable(HintOf(last))
          THEN delay = Some(Min(Get(HintOf(last)), max_delay))
          ELSE \E j \in 0 .. ((base_delay * Pow2(attempt - 1)) \div 2) :
                  delay = Some(Min(base_delay * Pow2(attempt - 1) + j,
                                   max_delay))
    /\ (pc = "loop" /\ Invoked) =>
          /\ sleeps[Len(sleeps)] = Get(delay)
          /\ HintUsable(HintOf(last)) =>
                sleeps[Len(sleeps)] = Min(Get(HintOf(last)), max_delay)

C9_Witness ==
    /\ pc = "loop"
    /\ max_delay = 6
    /\ HintOf(last) = Some(10)
    /\ sleeps = <<6>>

\* C10: without a server hint the delay of attempt a is
\* min(base*2^(a-1) + jitter, max_delay) with 0 <= jitter <= base*2^(a-1)/2;
\* it is at most max_delay and at least min(base*2^(a-1), max_delay); with
\* jitter 0, base 1 s and max_delay 30 s the delays of attempts 1, 2, 3 are
\* 1 s, 2 s, 4 s (2, 4, 8 half seconds).
C10_ExponentialBackoff ==
    (~IsNone(dOut) /\ IsNone(dArgs.retry_after)) =>
        LET raw == dArgs.base * Pow2(dArgs.attempt - 1)
            d == Get(dOut)
        IN  /\ 0 <= dArgs.jitter /\ 2 * dArgs.jitter <= raw
            /\ d = Min(raw + dArgs.jitter, dArgs.max_delay)
            /\ d <= dArgs.max_delay
            /\ d >= Min(raw, dArgs.max_delay)
            /\ (dArgs.jitter = 0 /\ dArgs.base = 2 /\ dArgs.max_delay = 60) =>
                  /\ dArgs.attempt = 1 => d = 2
                  /\ dArgs.attempt = 2 => d = 4
                  /\ dArgs.attempt = 3 => d = 8

C10_Witness ==
    /\ dArgs.attempt = 3
    /\ dArgs.base = 2
    /\ dArgs.max_delay = 60
    /\ dArgs.retry_after = None
    /\ dArgs.jitter = 0
    /\ dOut = Some(8)

EndToEndScript == <<Throttled, Throttled, Served>>
Scripted(sc) ==
    /\ client = "graphql"
    /\ ~IsNone(script)
    /\ SubSeq(Get(script), 1, Len(sc)) = sc

\* C11: through GraphQLClient.execute with the default max_attempts, a
\* transport that answers 429 with Retry-After: 3 twice and then 200 makes
\* the call return on the third attempt, after exactly two sleeps of 3 s
\* each (no exponential growth, no jitter), and the value returned is the
\* data of the third response; before that the loop sleeps 3 s after each
\* of the two throttled attempts and never ends early.
C11_ThrottledTwiceThenServed ==
    Scripted(EndToEndScript) =>
        /\ max_attempts = DEFAULT_MAX_RETRIES
        /\ pc # "raised"
        /\ pc = "sleep" => calls \in {1, 2} /\ delay = Some(6)
        /\ \A i \in 1 .. Len(sleeps) : sleeps[i] = 6
        /\ Finished =>
              /\ pc = "returned"
              /\ calls = 3
              /\ sleeps = <<6, 6>>
              /\ result = Some("payload")

C11_Witness ==
    /\ Scripted(EndToEndScript)
    /\ pc = "returned"
    /\ calls = 3
    /\ sleeps = <<6, 6>>
    /\ result = Some("payload")

IsRaised(o, kind) == o.type = "raise" /\ o.exc.kind = kind
RaisedWithStatus(o, st) ==
    IsRaised(o, "ApiError") /\ o.exc.status = Some(st)
AnsweredStatus ==
    client = "graphql" /\ Invoked /\ lastEv.t = "response"

\* C12: _execute_once maps the status of every HTTP response as the
\* classification table says: 401 raises AuthenticationError, 404 raises
\* ResourceNotFoundError, 429 raises a transient ApiError(429), each of
\* 408/500/502/503/504 raises a transient ApiError with that status, every
\* other status outside 200..299 raises a non-transient ApiError with that
\* status, and a status in 200..299 gives what the body alone decides.
C12_StatusTable ==
    AnsweredStatus =>
        /\ lastEv.status = 401 => IsRaised(last, "AuthenticationError")
        /\ lastEv.status = 404 => IsRaised(last, "ResourceNotFoundError")
        /\ lastEv.status \in TransientSet =>
              /\ RaisedWithStatus(last, lastEv.status)
              /\ is_transient(last.exc)
        /\ lastEv.status \notin (TransientSet \cup {401, 404} \cup (200 .. 299)) =>
              /\ RaisedWithStatus(last, lastEv.status)
              /\ ~is_transient(last.exc)
        /\ lastEv.status \in 200 .. 299 =>
              last = _execute_once(Response(200, lastEv.retry_after,
                                            lastEv.body))

SdkFailed == client = "rest" /\ Invoked /\ lastEv.t = "exc"
Mentions401(msg) ==
    \E i \in 1 .. Len(msg) : Word(msg[i]).s401 \/ Word(msg[i]).unauth
Mentions404(msg) ==
    \E i \in 1 .. Len(msg) : Word(msg[i]).s404 \/ Word(msg[i]).notfound
CodedWords(msg) == {i \in 1 .. Len(msg) : ~IsNone(Word(msg[i]).code)}
FirstCode(msg) ==
    IF CodedWords(msg) = {} THEN None
    ELSE Word(msg[CHOOSE i \in CodedWords(msg) :
                    \A j \in CodedWords(msg) : i <= j]).code
ThirdCase(msg) == ~Mentions401(msg) /\ ~Mentions404(msg)
Retried == pc \in {"sleep", "loop"}

\* C13: _call_once turns every exception of the SDK call into exactly one
\* error by a fixed precedence: AuthenticationError if the message contains
\* "401" or "unauthorized"; otherwise ResourceNotFoundError (with the SDK's
\* message) if it contains "404" or "not found"; otherwise ApiError with the
\* first 4xx/5xx code of the message, or none. So _call goes on to another
\* attempt after an SDK failure iff the message reaches the third case with
\* a code of the transient set (and an attempt is left), also when a
\* transient code stands next to a terminal keyword.
C13_RestPrecedence ==
    SdkFailed =>
        /\ last.type = "raise"
        /\ last.exc.cause = lastEv.exc
        /\ Mentions401(lastEv.msg) => last.exc.kind = "AuthenticationError"
        /\ (~Mentions401(lastEv.msg) /\ Mentions404(lastEv.msg)) =>
              /\ last.exc.kind = "ResourceNotFoundError"
              /\ last.exc.msg = lastEv.msg
        /\ ThirdCase(lastEv.msg) =>
              /\ last.exc.kind = "ApiError"
              /\ last.exc.status = FirstCode(lastEv.msg)
        /\ Retried <=>
              /\ ThirdCase(lastEv.msg)
              /\ ~IsNone(FirstCode(lastEv.msg))
              /\ Get(FirstCode(lastEv.msg)) \in TransientSet
              /\ calls < max_attempts
        /\ ~Retried => pc = "raised" /\ raised = Some(last.exc)

\* a transient code next to a terminal keyword: classified by the keyword,
\* raised after one invocation
C13_Witness ==
    /\ SdkFailed
    /\ lastEv.msg = <<"503", "Not Found">>
    /\ IsRaised(last, "ResourceNotFoundError")
    /\ pc = "raised"
    /\ calls = 1
    /\ sleeps = <<>>

\* parallel_map has gone back to its caller
BackToCaller == ppc \in {"returned", "raised"}
Occurrences(seq, x) == Cardinality({j \in 1 .. Len(seq) : seq[j] = x})
\* how many of the first j collected futures hold a return value
ReturnsAmong(j) ==
    Cardinality({m \in 1 .. j : futures[collected[m]].out.type = "return"})
\* the j-th collected future left its entry in the result: the value in
\* succeeded, or the pair (item, exception) in failed
EntryOf(j) ==
    IF futures[collected[j]].out.type = "return"
    THEN succeeded[ReturnsAmong(j)] = futures[collected[j]].out.value
    ELSE failed[j - ReturnsAmong(j)] =
            <<items[collected[j]], futures[collected[j]].out.exc>>

\* C14: with stop_on_error=False, parallel_map never raises, and on every
\* input list (the empty one too) and interleaving it returns a BatchResult
\* with total == len(items) in which every input item has exactly one
\* entry, its result in succeeded or (item, exception) in failed, and there
\* is no other entry.
C14_BatchComplete ==
    ~stop_on_error =>
        /\ ppc # "raised"
        /\ ppc = "returned" =>
              /\ total = Len(items)
              /\ Len(collected) = Len(items)
              /\ \A i \in 1 .. Len(items) : Occurrences(collected, i) = 1
              /\ \A j \in 1 .. Len(collected) : EntryOf(j)

C14_Witness ==
    /\ ~stop_on_error
    /\ ppc = "returned"
    /\ Len(items) = MaxItems
    /\ collected[1] = MaxItems
    /\ Len(succeeded) = 1
    /\ Len(failed) = MaxItems - 1

\* C15: with stop_on_error=False, func is invoked exactly once on every
\* input item and runs to completion, however many other items fail and in
\* whatever order they finish: no item is invoked twice, none is cancelled,
\* and when parallel_map returns every item has been invoked once and has
\* finished.
C15_EveryItemRunsOnce ==
    ~stop_on_error =>
        /\ \A i \in 1 .. Len(items) : invocations[i] <= 1
        /\ \A i \in 1 .. Len(futures) : futures[i].state # "cancelled"
        /\ ppc \notin {"cancel", "raised"}
        /\ ppc = "returned" =>
              \A i \in 1 .. Len(items) :
                  /\ invocations[i] = 1
                  /\ futures[i].state = "finished"

\* the first item collected failed, and the others ran all the same
C15_Witness ==
    /\ ~stop_on_error
    /\ ppc = "returned"
    /\ Len(items) = MaxItems
    /\ futures[collected[1]].out.type = "raise"
    /\ Len(failed) >= 2
    /\ \A i \in 1 .. Len(items) : invocations[i] = 1

FirstFailure == collected[Len(collected)]
SomeItemFailed ==
    \E i \in 1 .. Len(futures) :
        futures[i].state = "finished" /\ futures[i].out.type = "raise"

\* C17: with stop_on_error=True, once an item's func has failed
\* parallel_map never returns a BatchResult; when it raises, it raises
\* StopOnError for the first failure the collector came across (everything
\* collected before it had succeeded), with a message naming that item and
\* that failure's exception chained as the cause; and when no item fails it
\* returns the complete BatchResult, every item's value in succeeded.
C17_StopOnErrorAborts ==
    stop_on_error =>
        /\ SomeItemFailed => ppc # "returned"
        /\ ppc = "raised" =>
              /\ Len(failed) = 1
              /\ ReturnsAmong(Len(collected)) = Len(collected) - 1
              /\ futures[FirstFailure].out.type = "raise"
              /\ ~IsNone(stopped)
              /\ Get(stopped).kind = "StopOnError"
              /\ Get(stopped).msg[2] = items[FirstFailure]
              /\ SubSeq(Get(stopped).msg, 4, Len(Get(stopped).msg)) =
                    futures[FirstFailure].out.exc.msg
              /\ Get(stopped).cause = futures[FirstFailure].out.exc
        /\ ppc = "returned" =>
              /\ IsNone(stopped)
              /\ failed = <<>>
              /\ Len(succeeded) = Len(items)
              /\ \A i \in 1 .. Len(items) : Occurrences(collected, i) = 1
              /\ \A j \in 1 .. Len(collected) : EntryOf(j)

\* a failure collected after a success, another item cancelled
C17_Witness ==
    /\ stop_on_error
    /\ ppc = "raised"
    /\ Len(succeeded) = 1
    /\ \E i \in 1 .. Len(futures) : futures[i].state = "cancelled"
    /\ Get(stopped).cause.kind = "RuntimeError"

\* C18: when parallel_map returns or raises, after normal completion and
\* after a stop_on_error abort alike, every item has been submitted and its
\* future is finished or cancelled: no invocation of func is running and
\* none is left queued to start later.
C18_CleanShutdown ==
    BackToCaller =>
        /\ Len(futures) = Len(items)
        /\ Running = {}
        /\ \A i \in 1 .. Len(futures) : Settled(i)
        /\ \A i \in 1 .. Len(futures) :
              invocations[i] = IF futures[i].state = "finished" THEN 1 ELSE 0

\* an abort during which one item was cancelled and another, already
\* running, was waited for
C18_Witness ==
    /\ ppc = "raised"
    /\ \E i \in 1 .. Len(futures) : futures[i].state = "cancelled"
    /\ \E i \in 1 .. Len(futures) :
          /\ futures[i].state = "finished"
          /\ Occurrences(collected, i) = 0

\* C16: in every reachable state of parallel_map the number of invocations
\* of func running at the same time is at most
\* min(max(1, max_workers), 20, len(items)), whatever max_workers was
\* requested (0, negative, above the cap of 20), and when parallel_map
\* returns every item has been invoked and collected.
C16_WorkerCap ==
    /\ started - finished <= 20
    /\ started - finished <= batch
    /\ started - finished <= (IF requested < 1 THEN 1 ELSE requested)
    /\ bpc = "returned" =>
          /\ started = batch
          /\ finished = batch
          /\ gathered = batch

\* more items than the cap, more workers requested than the cap, and the
\* pool full: 20 invocations at once, with items still queued
C16_Witness ==
    /\ batch > 20
    /\ requested = 100
    /\ started - finished = 20
    /\ started < submitted

\* C19: poll_until invokes check_fn at once, with no sleep and no wait
\* before the first check, and when that first check reports done it
\* returns after exactly one check and no sleep, whatever timeout and
\* interval are (a deadline already past included).
C19_FirstCheckImmediate ==
    /\ seen = <<>> => pollPc = "check" /\ pollSleeps = <<>> /\ now = 0
    /\ seen # <<>> => checkStarts[1] = 0
    /\ (seen # <<>> /\ seen[1].done) =>
          /\ pollPc = "returned"
          /\ Len(seen) = 1
          /\ pollSleeps = <<>>
          /\ IsNone(pollError)

C19_Witness ==
    /\ timeout = 0
    /\ interval = 3
    /\ seen # <<>>
    /\ seen[1].done
    /\ now = MaxCheckTime
    /\ pollPc = "returned"
    /\ pollSleeps = <<>>

\* C20: when poll_until times out, the PollTimeoutError carries the label
\* and the status returned by the most recent check, the one made last,
\* whatever statuses the checks before it returned.
C20_TimeoutNamesLastStatus ==
    pollPc = "raised" =>
        /\ ~IsNone(pollError)
        /\ Get(pollError).kind = "PollTimeoutError"
        /\ Get(pollError).label = label
        /\ Get(pollError).timeout = timeout
        /\ Get(pollError).status = seen[Len(seen)].status
        /\ ~seen[Len(seen)].done

\* the status changed between the first check and the last
C20_Witness ==
    /\ pollPc = "raised"
    /\ label = "pod"
    /\ Len(seen) >= 2
    /\ seen[1].status = "PENDING"
    /\ seen[Len(seen)].status = "INITIALIZING"
    /\ Get(pollError).status = "INITIALIZING"

\* the check made last began at or after the deadline
LastCheckAtDeadline ==
    seen # <<>> /\ checkStarts[Len(checkStarts)] >= deadline

\* C21: poll_until makes a final check at or after the deadline before it
\* declares timeout: whenever PollTimeoutError is raised, the check_fn call
\* made last began at a time >= start + timeout, whatever timeout, interval
\* and the duration of the checks; and when a check that began at or after
\* the deadline reports done, poll_until returns and raises nothing.
C21_FinalCheckAtDeadline ==
    /\ pollPc = "raised" => LastCheckAtDeadline
    /\ (LastCheckAtDeadline /\ seen[Len(seen)].done) =>
          pollPc = "returned" /\ IsNone(pollError)

\* the time between the beginnings of check j and check j + 1
Gap(j) == checkStarts[j + 1] - checkStarts[j]
ConsecutiveChecks == 1 .. (Len(checkStarts) - 1)

PodLines == {j \in 1 .. Len(errLines) : errLines[j].kind = "failed"}

\* C23: the bulk commands never drop a partial failure: for stop-all and
\* delete-all, with and without --parallel, when the command has gone
\* through the pods there is one error line on stderr for every pod whose
\* operation failed, and the exit code is not 0 if any pod failed.
C23_FailuresReported ==
    (cliPc = "exited" /\ (podIndex > Len(pods) \/ ppc = "returned")
     /\ pods # <<>>) =>
        /\ Cardinality(PodLines) = Cardinality(podFailures)
        /\ podFailures # {} => exitCode # Some(0)

\* C24: the retry layer never runs a RestClient call, mutating or not,
\* again beyond what the taxonomy marks transient: the SDK function is
\* invoked again only after an attempt whose failure was classified
\* transient, at most 3 times in one client call, and a remote that may
\* carry out a mutation and still answer with a retried status does not
\* carry it out twice for one client call.
C24_NoRepeatedMutation ==
    client = "rest" =>
        /\ calls <= 3
        /\ (Invoked /\ Retried) =>
              last.type = "raise" /\ TransientApiError(last.exc)
        /\ applied <= 1

\* C25: parallel_map never deadlocks: when every invocation of func
\* terminates, parallel_map eventually returns or raises, in both modes
\* and under every interleaving, the race between the cancel loop and the
\* workers included.
C25_NeverDeadlocks == <>BackToCaller

\* the race: a worker picked up a later item after the cancel loop had
\* cancelled an earlier one, and StopOnError still reached the caller
C25_Witness ==
    /\ ppc = "raised"
    /\ \E j \in 1 .. Len(futures) :
          /\ futures[j].state = "cancelled"
          /\ \E i \in (j + 1) .. Len(futures) : invocations[i] = 1

\* C26: the BatchResult is filled by the calling thread alone: every
\* append to succeeded or failed is one step of the collecting loop, made
\* after the item's future has completed, it records that future's outcome
\* once, and the steps of the worker threads leave the result untouched;
\* so no outcome is lost or recorded twice.
C26_SingleCollector ==
    [][/\ (succeeded' # succeeded \/ failed' # failed) =>
             /\ ppc = "collect"
             /\ futures' = futures
             /\ invocations' = invocations
             /\ \E i \in 1 .. Len(futures) :
                   /\ futures[i].state = "finished"
                   /\ \A j \in 1 .. Len(collected) : collected[j] # i
                   /\ collected' = Append(collected, i)
                   /\ IF futures[i].out.type = "return"
                      THEN /\ succeeded' =
                                 Append(succeeded, futures[i].out.value)
                           /\ failed' = failed
                      ELSE /\ failed' =
                                 Append(failed,
                                        <<items[i], futures[i].out.exc>>)
                           /\ succeeded' = succeeded
       /\ Len(succeeded') + Len(failed') = Len(collected')
       /\ (futures' # futures \/ invocations' # invocations) =>
             succeeded' = succeeded /\ failed' = failed]_vars

\* both lists were appended to while a worker thread was still running
C26_Witness ==
    /\ succeeded # <<>>
    /\ failed # <<>>
    /\ Running # {}
    /\ ppc = "collect"

\* C27: whatever mix of transient ApiErrors and network-level failures the
\* attempts meet, one call counts them with one attempt counter: func is
\* invoked at most max_attempts times in all, every sleep lies between two
\* invocations (after the call, sleeps = invocations - 1), and no sleep
\* follows the last invocation.
C27_OneAttemptCounter ==
    /\ calls <= Max(0, max_attempts)
    /\ pc = "loop" => Len(sleeps) = calls /\ attempt = calls + 1
    /\ pc = "sleep" => Len(sleeps) = calls - 1 /\ attempt = calls
    /\ (pc = "loop" /\ Invoked) => attempt <= max_attempts
    /\ (Finished /\ Invoked) => Len(sleeps) = calls - 1 /\ attempt = calls
    /\ (Finished /\ ~Invoked) => sleeps = <<>>

\* a call that met a transient ApiError, then a network-level failure, and
\* came back to its caller after the third invocation
C27_Witness ==
    /\ Finished
    /\ calls = 3
    /\ hist[1] = "ApiError"
    /\ hist[2] \in TransportKinds
    /\ Len(sleeps) = 2

\* C28: with stop_on_error, a future that is still pending when the cancel
\* loop reaches it is cancelled and its item is never invoked; once the
\* cancel loop is over no invocation starts; an invocation that is running
\* is not interrupted, it runs to its end, and StopOnError reaches the
\* caller only when none is running any more.
C28_CancelRace ==
    [][/\ (ppc = "cancel" /\ cursor' # cursor
                           /\ futures[cursor].state = "pending") =>
             futures'[cursor].state = "cancelled"
       /\ \A i \in 1 .. Len(futures) :
             /\ futures[i].state = "cancelled" =>
                   futures'[i].state = "cancelled" /\ invocations'[i] = 0
             /\ futures[i].state = "running" =>
                   \/ futures'[i] = futures[i]
                   \/ /\ futures'[i].state = "finished"
                      /\ futures'[i].out \in FuncOutcomes(items[i])
       /\ ~IsNone(stopped) => invocations' = invocations
       /\ ppc' = "raised" =>
             /\ stop_on_error /\ ~IsNone(stopped')
             /\ \A i \in 1 .. Len(futures') : Settled(i)']_vars

\* StopOnError reached the caller after the cancel loop had cancelled a
\* pending future and passed over one that was running and finished later
C28_Witness ==
    /\ ppc = "raised"
    /\ \E i \in 1 .. Len(futures) : futures[i].state = "cancelled"
    /\ \E i \in 1 .. Len(futures) :
          /\ futures[i].state = "finished"
          /\ \A j \in 1 .. Len(collected) : collected[j] # i

PollDone == pollPc \in {"returned", "raised"}
LastSeen == seen[Len(seen)]

\* C30: on a clock that advances and with a check_fn that always returns,
\* poll_until terminates.  It returns in the step of the first check that
\* reports done and raises PollTimeoutError in the step of the first check
\* that is not done and ends at or after the deadline: a timeout always
\* comes straight from a check that was not done, a return straight from a
\* check that was done, and with timeout <= 0 there is exactly one check.
C30_PollTerminates ==
    /\ <>PollDone
    /\ [][/\ (~PollDone /\ PollDone') =>
               /\ pollPc = "check"
               /\ seen' = Append(seen, LastSeen')
               /\ pollSleeps' = pollSleeps
               /\ pollPc' = "returned" <=> LastSeen'.done
               /\ pollPc' = "raised" =>
                     /\ now' >= deadline
                     /\ ~IsNone(pollError')
               /\ pollPc' = "returned" => IsNone(pollError')
          /\ (pollPc = "check" /\ ~PollDone') =>
               /\ pollPc' = "sleep"
               /\ ~LastSeen'.done
               /\ now' < deadline
          /\ PollDone' =>
               /\ \A j \in 1 .. (Len(seen') - 1) : ~seen'[j].done
               /\ timeout <= 0 => Len(seen') = 1
               /\ Len(pollSleeps') = Len(seen') - 1
          /\ timeout <= 0 => Len(seen') <= 1 /\ pollSleeps' = <<>>]_vars

\* a timeout raised by the third check, after two that ended before the
\* deadline
C30_Witness ==
    /\ pollPc = "raised"
    /\ Len(seen) = 3
    /\ Len(pollSleeps) = 2
    /\ now >= deadline
    /\ timeout > 0

====
